---- MODULE Spec2Model ----
(***************************************************************************)
(* Model of src/app.py: a Streamlit script with two tabs.  Every user      *)
(* interaction (a widget change or a button press) reruns the whole script *)
(* top to bottom; a button reads TRUE only in the run its press caused.    *)
(*                                                                         *)
(* Numbers.  Python floats are modelled as exact rationals <<n, d>> in     *)
(* lowest terms with d > 0; the one irrational operation, ** with a        *)
(* non-integer result, is evaluated to four decimals (Pow).  So that the   *)
(* arithmetic stays inside TLC's integers, vehicle and housing counts are  *)
(* held in millions and HPDC masses in millions of pounds: the value       *)
(* <<56, 5>> of annual_vehicle_production is 11,200,000 vehicles, and a    *)
(* total of <<13188, 5>> is 2,637,600,000 lbs.  The company tab's integers *)
(* and dollars are held as they are.                                       *)
(***************************************************************************)
EXTENDS Integers, Sequences, FiniteSets, TLC

----------------------------------------------------------------------------
(* Rational arithmetic: Python's +, *, / and comparisons on numbers.       *)

Abs(x) == IF x < 0 THEN -x ELSE x

RECURSIVE GCD(_, _)
GCD(a, b) == IF b = 0 THEN a ELSE GCD(b, a % b)

\* The rational n/d in lowest terms with a positive denominator (d # 0).
Norm(n, d) ==
    LET g == GCD(Abs(n), Abs(d))
        s == IF d < 0 THEN -1 ELSE 1
    IN  <<(s * n) \div g, (s * d) \div g>>

R(i) == <<i, 1>>
Zero == R(0)
One == R(1)

RAdd(a, b) ==
    LET g == GCD(a[2], b[2])
    IN  Norm(a[1] * (b[2] \div g) + b[1] * (a[2] \div g), (a[2] \div g) * b[2])

\* Cross-cancelled before multiplying, so that no intermediate is larger
\* than the result.
RMul(a, b) ==
    LET g1 == GCD(Abs(a[1]), b[2])
        g2 == GCD(Abs(b[1]), a[2])
    IN  IF a[1] = 0 \/ b[1] = 0 THEN Zero
        ELSE <<(a[1] \div g1) * (b[1] \div g2), (a[2] \div g2) * (b[2] \div g1)>>

\* a / b for b # 0 (the caller raises ZeroDivisionError otherwise).
RDiv(a, b) == RMul(a, Norm(b[2], b[1]))

RIsNeg(a) == a[1] < 0

----------------------------------------------------------------------------
(* Module-level names of app.py (lines 8-20).  Python module globals are   *)
(* mutable bindings, so they are state: variable module_globals.           *)

HPDC_per_ICE == 190
HPDC_per_HEV == 240
HPDC_per_EV == 300

\* 25.44 trillion USD
BASE_YEAR_GDP == <<636, 25>>
\* 3.2e9 lbs, in millions of pounds
BASE_OTHER_HPDC == R(3200)

Al_Share == [ICE |-> <<23, 25>>, HEV |-> <<9, 10>>, EV |-> <<19, 20>>]
Zn_Share == [ICE |-> <<1, 25>>, HEV |-> <<3, 100>>, EV |-> <<1, 100>>]
Mg_Share == [ICE |-> <<1, 50>>, HEV |-> <<3, 100>>, EV |-> <<3, 100>>]

ModuleGlobals ==
    [HPDC_per_ICE |-> HPDC_per_ICE, HPDC_per_HEV |-> HPDC_per_HEV,
     HPDC_per_EV |-> HPDC_per_EV,
     Al_Share |-> Al_Share, Zn_Share |-> Zn_Share, Mg_Share |-> Mg_Share,
     BASE_YEAR_GDP |-> BASE_YEAR_GDP, BASE_OTHER_HPDC |-> BASE_OTHER_HPDC]

Segments == {"Automotive", "Medical", "Consumer", "Industrial", "Aerospace"}

----------------------------------------------------------------------------
(* Input sets.  The Wide sets are the arguments the estimators are checked *)
(* on; the Shell sets are the values the widget actions of the full        *)
(* session move between.                                                   *)

MaxMachines == 10

\* vehicles, in millions: -1,000,000; 0; 1,000,000; 11,200,000 (the default)
WideProduction == {R(-1), Zero, One, <<56, 5>>}
ShellProduction == {R(-1), Zero, <<56, 5>>}
\* housing starts, in millions: 0; 1,400,000 (the default)
WideHousing == {Zero, <<7, 5>>}
ShellHousing == {Zero, <<7, 5>>}
\* slider percentages 0..100: every fifth value / per slider, the ends and
\* the default
WideMix == {5 * k : k \in 0..20}
ShellIce == {0, 45, 100}
ShellHev == {0, 25, 100}
ShellEv == {0, 30, 100}
\* trillion USD: -25.44; 0; 25.44 (the base year); 27.10 (the default)
WideGdp == {<<-636, 25>>, Zero, <<636, 25>>, <<271, 10>>}
ShellGdp == {Zero, <<271, 10>>}
\* slider 0.0..2.0: 0; 0.92 (the default); 1; 2
WideElasticity == {Zero, <<23, 25>>, One, R(2)}
ShellElasticity == {Zero, <<23, 25>>}
WideMachines == 0..MaxMachines
ShellMachines == {0, 10}
WideTonnage == {0, 1, 200}
ShellTonnage == {0, 200}
WideEmployees == {0, 1, 50}
ShellEmployees == {0, 50}
ShellSegments == {"Automotive"}

----------------------------------------------------------------------------
(* The two estimators.                                                     *)

RECURSIVE IntPow(_, _)
IntPow(x, k) == IF k = 0 THEN One ELSE RMul(x, IntPow(x, k - 1))

\* x ** y of Python floats (line 25), on the bases and exponents of the
\* input sets.  y = 0.0 gives 1.0 for every x, 0.0 and negatives included;
\* y = 1.0 gives x; an integer power of 0, 1 or -1 is exact; a negative x
\* with a non-integer y gives a complex number; 0 and 1 to a positive power
\* are themselves; the two remaining powers are the float results to four
\* decimals: (27.10 / 25.44) ** 0.92 = 1.05987..., and
\* (27.10 / 25.44) ** 2.0 = 1.13476...
Pow(x, y) ==
    IF y = Zero THEN [kind |-> "real", val |-> One]
    ELSE IF y = One THEN [kind |-> "real", val |-> x]
    ELSE IF x \in {Zero, One, R(-1)} /\ y[2] = 1
        THEN [kind |-> "real", val |-> IntPow(x, y[1])]
    ELSE IF RIsNeg(x) /\ y[2] # 1 THEN [kind |-> "complex"]
    ELSE IF x \in {Zero, One} THEN [kind |-> "real", val |-> x]
    ELSE IF x = <<1355, 1272>> /\ y = <<23, 25>>
        THEN [kind |-> "real", val |-> <<10599, 10000>>]
    ELSE IF x = <<1355, 1272>> /\ y = R(2)
        THEN [kind |-> "real", val |-> <<2837, 2500>>]
    ELSE [kind |-> "unmodelled"]

\* Mutation: the percentages divided with // (floor division).
hpdc_auto_FloorDiv(vehicle_mix, annual_vehicle_production, g) ==
    RAdd(RAdd(
        RMul(RMul(R(vehicle_mix.ICE \div 100), annual_vehicle_production),
             R(g.HPDC_per_ICE)),
        RMul(RMul(R(vehicle_mix.HEV \div 100), annual_vehicle_production),
             R(g.HPDC_per_HEV))),
        RMul(RMul(R(vehicle_mix.EV \div 100), annual_vehicle_production),
             R(g.HPDC_per_EV)))

\* Mutation: the ICE and HEV intensities exchanged.
hpdc_auto_SwappedIntensities(vehicle_mix, annual_vehicle_production, g) ==
    RAdd(RAdd(
        RMul(RMul(Norm(vehicle_mix.ICE, 100), annual_vehicle_production),
             R(g.HPDC_per_HEV)),
        RMul(RMul(Norm(vehicle_mix.HEV, 100), annual_vehicle_production),
             R(g.HPDC_per_ICE))),
        RMul(RMul(Norm(vehicle_mix.EV, 100), annual_vehicle_production),
             R(g.HPDC_per_EV)))

\* Lines 28-32: the automotive demand, read from the module's intensities.
hpdc_auto(vehicle_mix, annual_vehicle_production, g) ==
    RAdd(RAdd(
        RMul(RMul(Norm(vehicle_mix.ICE, 100), annual_vehicle_production),
             R(g.HPDC_per_ICE)),
        RMul(RMul(Norm(vehicle_mix.HEV, 100), annual_vehicle_production),
             R(g.HPDC_per_HEV))),
        RMul(RMul(Norm(vehicle_mix.EV, 100), annual_vehicle_production),
             R(g.HPDC_per_EV)))

\* Line 34.
hpdc_housing(annual_housing_starts) == RMul(annual_housing_starts, R(100))

\* Line 26: the base-year demand times the growth factor; "real" with the
\* value, or "complex".
Scaled(base_year_other_hpdc, gdp_growth_factor) ==
    IF gdp_growth_factor.kind = "real"
    THEN [kind |-> "real", val |-> RMul(base_year_other_hpdc, gdp_growth_factor.val)]
    ELSE gdp_growth_factor

\* Mutation: the exponent of line 25 left out.
est_other_hpdc_NoExponent(base_year_gdp, current_gdp, base_year_other_hpdc, gdp_elasticity) ==
    Scaled(base_year_other_hpdc, Pow(RDiv(current_gdp, base_year_gdp), One))

\* Lines 25-26.
est_other_hpdc(base_year_gdp, current_gdp, base_year_other_hpdc, gdp_elasticity) ==
    Scaled(base_year_other_hpdc,
           Pow(RDiv(current_gdp, base_year_gdp), gdp_elasticity))

\* Lines 37-41: the three divisions by total_hpdc.
Shares(auto, housing, other, total_hpdc) ==
    [Auto |-> RDiv(auto, total_hpdc),
     Housing |-> RDiv(housing, total_hpdc),
     Other |-> RDiv(other, total_hpdc)]

\* Lines 35-42, given the three components: the division by a zero
\* total_hpdc at line 38 raises ZeroDivisionError, otherwise the function
\* returns (total_hpdc, shares).  The locals the result was built from are
\* kept with it; vehicle_mix is the argument dict as the call leaves it.
Returned(vehicle_mix, auto, housing, other, total_hpdc) ==
    IF total_hpdc = Zero
    THEN [kind |-> "ZeroDivisionError", hpdc_auto |-> auto,
          hpdc_housing |-> housing, est_other_hpdc |-> other,
          vehicle_mix |-> vehicle_mix]
    ELSE [kind |-> "returned", total_hpdc |-> total_hpdc,
          shares |-> Shares(auto, housing, other, total_hpdc),
          hpdc_auto |-> auto, hpdc_housing |-> housing,
          est_other_hpdc |-> other, vehicle_mix |-> vehicle_mix]

\* Line 35 onwards; a complex growth factor makes total_hpdc and the shares
\* complex numbers ("returned_complex", their values not tracked).
Totalled(vehicle_mix, auto, housing, other) ==
    IF other.kind # "real"
    THEN [kind |-> "returned_complex", hpdc_auto |-> auto,
          hpdc_housing |-> housing, vehicle_mix |-> vehicle_mix]
    ELSE Returned(vehicle_mix, auto, housing, other.val,
                  RAdd(RAdd(auto, housing), other.val))

\* Lines 23-42, reading the intensities from the module globals g.
estimate_hpdc_production(annual_housing_starts, annual_vehicle_production, vehicle_mix, base_year_gdp, current_gdp, base_year_other_hpdc, gdp_elasticity, g) ==
    Totalled(vehicle_mix,
             hpdc_auto(vehicle_mix, annual_vehicle_production, g),
             hpdc_housing(annual_housing_starts),
             est_other_hpdc(base_year_gdp, current_gdp, base_year_other_hpdc,
                            gdp_elasticity))

\* Mutation: any served market earns the multiplier.
automotive_weight_AnyMarket(markets) == IF markets # {} THEN <<9, 5>> ELSE One

\* Line 46.
automotive_weight(markets) == IF "Automotive" \in markets THEN <<9, 5>> ELSE One

\* Lines 45-51: (revenue, clamping_force); markets is the argument list as
\* the call leaves it.
predict_annual_revenue(machines, employees, avg_tonnage, markets) ==
    LET clamping_force == machines * avg_tonnage
        revenue_per_ton == 3000
        base_revenue == clamping_force * revenue_per_ton
        employee_efficiency == employees * 250000
    IN  [revenue |-> RMul(R(base_revenue + employee_efficiency),
                          automotive_weight(markets)),
         clamping_force |-> clamping_force,
         markets |-> markets]

\* Mutation: the function rebinds BASE_OTHER_HPDC to its estimate.
GlobalsAfterEstimate_Rebase(g, result) ==
    IF "est_other_hpdc" \in DOMAIN result
    THEN [g EXCEPT !.BASE_OTHER_HPDC = result.est_other_hpdc]
    ELSE g

\* Neither function body has a global statement or assigns to a module
\* name: a call leaves the module globals as they were.
GlobalsAfterEstimate(g, result) == g
GlobalsAfterPredict(g, result) == g

----------------------------------------------------------------------------
(* The Streamlit session (lines 53-120).                                   *)

VARIABLES
    annual_vehicle_production, vehicle_mix_ice, vehicle_mix_hev, vehicle_mix_ev,
    housing_starts, gdp_current, gdp_elasticity,
    machines, avg_tonnage, employees, markets,
    module_globals, invoked,
    national_call, national_out, company_call, company_out

national_widgets ==
    <<annual_vehicle_production, vehicle_mix_ice, vehicle_mix_hev, vehicle_mix_ev,
      housing_starts, gdp_current, gdp_elasticity>>
company_widgets == <<machines, avg_tonnage, employees, markets>>
outputs ==
    <<module_globals, invoked, national_call, national_out, company_call, company_out>>
vars == <<national_widgets, company_widgets, outputs>>

\* The widget values a run of the script reads.
NationalWidgets ==
    [annual_vehicle_production |-> annual_vehicle_production,
     vehicle_mix_ice |-> vehicle_mix_ice, vehicle_mix_hev |-> vehicle_mix_hev,
     vehicle_mix_ev |-> vehicle_mix_ev, housing_starts |-> housing_starts,
     gdp_current |-> gdp_current, gdp_elasticity |-> gdp_elasticity]
CompanyWidgets ==
    [machines |-> machines, avg_tonnage |-> avg_tonnage,
     employees |-> employees, markets |-> markets]

\* Line 74.
total_mix(w) == w.vehicle_mix_ice + w.vehicle_mix_hev + w.vehicle_mix_ev

\* Mutation: the check of line 76 written as total_mix > 100.
MixAccepted_AtMost100(w) == ~(total_mix(w) > 100)

\* Line 76: the else branch is taken.
MixAccepted(w) == ~(total_mix(w) # 100)

\* Lines 79-83.
vehicle_mix(w) ==
    [ICE |-> w.vehicle_mix_ice, HEV |-> w.vehicle_mix_hev, EV |-> w.vehicle_mix_ev]

NoCall == [kind |-> "none"]

\* Lines 76-89: the call the national tab makes in a run, if any; pressed
\* is the value of the button of line 85, g the module globals.
NationalCall(w, g, pressed) ==
    IF MixAccepted(w) /\ pressed
    THEN [kind |-> "call",
          annual_housing_starts |-> w.housing_starts,
          annual_vehicle_production |-> w.annual_vehicle_production,
          vehicle_mix |-> vehicle_mix(w),
          base_year_gdp |-> g.BASE_YEAR_GDP,
          current_gdp |-> w.gdp_current,
          base_year_other_hpdc |-> g.BASE_OTHER_HPDC,
          gdp_elasticity |-> w.gdp_elasticity]
    ELSE NoCall

\* Lines 76-96: what the national tab shows after a run: the warning, the
\* button alone, or the outcome of the call c (the metric and the pie
\* chart, or the exception that ends the run).
NationalTab(w, g, c) ==
    IF ~MixAccepted(w) THEN [kind |-> "warning"]
    ELSE IF c.kind = "none" THEN [kind |-> "button"]
    ELSE estimate_hpdc_production(
             c.annual_housing_starts, c.annual_vehicle_production,
             c.vehicle_mix, c.base_year_gdp, c.current_gdp,
             c.base_year_other_hpdc, c.gdp_elasticity, g)

\* Lines 115-116: the call the company tab makes in a run, if any.
CompanyCall(w, pressed) ==
    IF pressed
    THEN [kind |-> "call", machines |-> w.machines, employees |-> w.employees,
          avg_tonnage |-> w.avg_tonnage, markets |-> w.markets]
    ELSE NoCall

\* Mutation: the if of line 119 dropped.
ShowsRevenuePerEmployee_Always(n) == TRUE

\* Line 119: if employees (truthiness of the number).
ShowsRevenuePerEmployee(n) == n # 0

\* Lines 117-120: the metrics shown for the returned pair; "Revenue per
\* Employee" only under the if of line 119.
Metrics(r, n) ==
    IF ShowsRevenuePerEmployee(n)
    THEN [kind |-> "metrics", revenue |-> r.revenue,
          total_clamping_force |-> r.clamping_force, markets |-> r.markets,
          revenue_per_employee |->
              IF n = 0 THEN [kind |-> "ZeroDivisionError"]
              ELSE RDiv(r.revenue, R(n))]
    ELSE [kind |-> "metrics", revenue |-> r.revenue,
          total_clamping_force |-> r.clamping_force, markets |-> r.markets]

\* Lines 115-120: what the company tab shows after a run: the button alone
\* or the metrics of the call c.
CompanyTab(c) ==
    IF c.kind = "none" THEN [kind |-> "button"]
    ELSE Metrics(predict_annual_revenue(c.machines, c.employees,
                                        c.avg_tonnage, c.markets),
                 c.employees)

\* The state a run leaves, given what the two tabs did.  An exception in
\* the national tab ends the run before line 98: the company tab is then
\* not rendered.  invoked records which of the two functions the session
\* has called so far.
Rendered(call, nat, coCall, co) ==
    /\ national_call' = call
    /\ invoked' = invoked
                   \cup (IF call.kind = "call" THEN {"estimate_hpdc_production"} ELSE {})
                   \cup (IF nat.kind # "ZeroDivisionError" /\ coCall.kind = "call"
                         THEN {"predict_annual_revenue"} ELSE {})
    /\ national_out' = nat
    /\ IF nat.kind = "ZeroDivisionError"
       THEN /\ company_call' = NoCall
            /\ company_out' = [kind |-> "not_rendered"]
            /\ module_globals' = GlobalsAfterEstimate(module_globals, nat)
       ELSE /\ company_call' = coCall
            /\ company_out' = co
            /\ module_globals' =
                   IF call.kind = "call"
                   THEN GlobalsAfterEstimate(module_globals, nat)
                   ELSE IF coCall.kind = "call"
                   THEN GlobalsAfterPredict(module_globals, co)
                   ELSE module_globals

NationalRun(w, g, c, coCall) == Rendered(c, NationalTab(w, g, c), coCall, CompanyTab(coCall))

\* One run of the script, top to bottom, on the widget values of the new
\* state; at most one of the two buttons reads TRUE in a run.
RunScript(natPressed, coPressed) ==
    NationalRun(NationalWidgets', module_globals,
                NationalCall(NationalWidgets', module_globals, natPressed),
                CompanyCall(CompanyWidgets', coPressed))

Init ==
    /\ annual_vehicle_production = <<56, 5>>
    /\ vehicle_mix_ice = 45
    /\ vehicle_mix_hev = 25
    /\ vehicle_mix_ev = 30
    /\ housing_starts = <<7, 5>>
    /\ gdp_current = <<271, 10>>
    /\ gdp_elasticity = <<23, 25>>
    /\ machines = 10
    /\ avg_tonnage = 200
    /\ employees = 50
    /\ markets = {"Automotive"}
    /\ module_globals = ModuleGlobals
    /\ invoked = {}
    /\ national_call = NoCall
    /\ national_out = [kind |-> "button"]
    /\ company_call = NoCall
    /\ company_out = [kind |-> "button"]

\* A widget of the national tab is changed (lines 63-72): the script reruns
\* with both buttons unpressed.
SetVehicleProduction ==
    /\ \E v \in ShellProduction : annual_vehicle_production' = v
    /\ UNCHANGED <<vehicle_mix_ice, vehicle_mix_hev, vehicle_mix_ev,
                   housing_starts, gdp_current, gdp_elasticity, company_widgets>>
    /\ RunScript(FALSE, FALSE)

SetMixIce ==
    /\ \E v \in ShellIce : vehicle_mix_ice' = v
    /\ UNCHANGED <<annual_vehicle_production, vehicle_mix_hev, vehicle_mix_ev,
                   housing_starts, gdp_current, gdp_elasticity, company_widgets>>
    /\ RunScript(FALSE, FALSE)

SetMixHev ==
    /\ \E v \in ShellHev : vehicle_mix_hev' = v
    /\ UNCHANGED <<annual_vehicle_production, vehicle_mix_ice, vehicle_mix_ev,
                   housing_starts, gdp_current, gdp_elasticity, company_widgets>>
    /\ RunScript(FALSE, FALSE)

SetMixEv ==
    /\ \E v \in ShellEv : vehicle_mix_ev' = v
    /\ UNCHANGED <<annual_vehicle_production, vehicle_mix_ice, vehicle_mix_hev,
                   housing_starts, gdp_current, gdp_elasticity, company_widgets>>
    /\ RunScript(FALSE, FALSE)

SetHousingStarts ==
    /\ \E v \in ShellHousing : housing_starts' = v
    /\ UNCHANGED <<annual_vehicle_production, vehicle_mix_ice, vehicle_mix_hev,
                   vehicle_mix_ev, gdp_current, gdp_elasticity, company_widgets>>
    /\ RunScript(FALSE, FALSE)

SetGdpCurrent ==
    /\ \E v \in ShellGdp : gdp_current' = v
    /\ UNCHANGED <<annual_vehicle_production, vehicle_mix_ice, vehicle_mix_hev,
                   vehicle_mix_ev, housing_starts, gdp_elasticity, company_widgets>>
    /\ RunScript(FALSE, FALSE)

SetGdpElasticity ==
    /\ \E v \in ShellElasticity : gdp_elasticity' = v
    /\ UNCHANGED <<annual_vehicle_production, vehicle_mix_ice, vehicle_mix_hev,
                   vehicle_mix_ev, housing_starts, gdp_current, company_widgets>>
    /\ RunScript(FALSE, FALSE)

\* A widget of the company tab is changed (lines 104-113); the widgets
\* exist only if the last run rendered the tab.  min_value=0 bounds the
\* three number inputs below.
SetMachines ==
    /\ company_out.kind # "not_rendered"
    /\ \E v \in ShellMachines : v >= 0 /\ machines' = v
    /\ UNCHANGED <<national_widgets, avg_tonnage, employees, markets>>
    /\ RunScript(FALSE, FALSE)

SetAvgTonnage ==
    /\ company_out.kind # "not_rendered"
    /\ \E v \in ShellTonnage : v >= 0 /\ avg_tonnage' = v
    /\ UNCHANGED <<national_widgets, machines, employees, markets>>
    /\ RunScript(FALSE, FALSE)

SetEmployees ==
    /\ company_out.kind # "not_rendered"
    /\ \E v \in ShellEmployees : v >= 0 /\ employees' = v
    /\ UNCHANGED <<national_widgets, machines, avg_tonnage, markets>>
    /\ RunScript(FALSE, FALSE)

\* The multiselect of lines 109-113: one segment is selected or removed.
ToggleMarket ==
    /\ company_out.kind # "not_rendered"
    /\ \E m \in ShellSegments :
           markets' = IF m \in markets THEN markets \ {m} ELSE markets \cup {m}
    /\ UNCHANGED <<national_widgets, machines, avg_tonnage, employees>>
    /\ RunScript(FALSE, FALSE)

\* The button of line 85 is pressed; it exists only under the else of
\* line 78, and only the pressed button reads TRUE in the rerun.
PressEstimateNational ==
    /\ national_out.kind # "warning"
    /\ UNCHANGED <<national_widgets, company_widgets>>
    /\ RunScript(TRUE, FALSE)

\* The button of line 115 is pressed.
PressEstimateRevenue ==
    /\ company_out.kind # "not_rendered"
    /\ UNCHANGED <<national_widgets, company_widgets>>
    /\ RunScript(FALSE, TRUE)

Next ==
    \/ SetVehicleProduction
    \/ SetMixIce
    \/ SetMixHev
    \/ SetMixEv
    \/ SetHousingStarts
    \/ SetGdpCurrent
    \/ SetGdpElasticity
    \/ SetMachines
    \/ SetAvgTonnage
    \/ SetEmployees
    \/ ToggleMarket
    \/ PressEstimateNational
    \/ PressEstimateRevenue

Spec == Init /\ [][Next]_vars

----------------------------------------------------------------------------
(* The estimators on their own: the session starts from any widget values  *)
(* of the Wide sets (every one of them a state the widgets can be put in)  *)
(* and the button is pressed.                                              *)

InitDemand ==
    /\ annual_vehicle_production \in WideProduction
    /\ vehicle_mix_ice \in WideMix
    /\ vehicle_mix_hev \in WideMix
    /\ vehicle_mix_ev \in WideMix
    /\ vehicle_mix_ice + vehicle_mix_hev + vehicle_mix_ev = 100
    /\ housing_starts \in WideHousing
    /\ gdp_current \in WideGdp
    /\ gdp_elasticity \in WideElasticity
    /\ machines = 10
    /\ avg_tonnage = 200
    /\ employees = 50
    /\ markets = {"Automotive"}
    /\ module_globals = ModuleGlobals
    /\ invoked = {}
    /\ national_call = NoCall
    /\ national_out = [kind |-> "button"]
    /\ company_call = NoCall
    /\ company_out = [kind |-> "button"]

NextDemand == PressEstimateNational

SpecDemand == InitDemand /\ [][NextDemand]_vars

InitRevenue ==
    /\ annual_vehicle_production = <<56, 5>>
    /\ vehicle_mix_ice = 45
    /\ vehicle_mix_hev = 25
    /\ vehicle_mix_ev = 30
    /\ housing_starts = <<7, 5>>
    /\ gdp_current = <<271, 10>>
    /\ gdp_elasticity = <<23, 25>>
    /\ machines \in WideMachines
    /\ avg_tonnage \in WideTonnage
    /\ employees \in WideEmployees
    /\ markets \in SUBSET Segments
    /\ module_globals = ModuleGlobals
    /\ invoked = {}
    /\ national_call = NoCall
    /\ national_out = [kind |-> "button"]
    /\ company_call = NoCall
    /\ company_out = [kind |-> "button"]

NextRevenue == PressEstimateRevenue

SpecRevenue == InitRevenue /\ [][NextRevenue]_vars

----------------------------------------------------------------------------
(* Properties.                                                             *)

MixSum == vehicle_mix_ice + vehicle_mix_hev + vehicle_mix_ev

\* a <= b on rationals.
RLeq(a, b) == RAdd(b, <<-a[1], a[2]>>)[1] >= 0

\* C1: whenever the three percentages do not sum to 100, the last run made
\* no call of estimate_hpdc_production and shows the warning, no total and
\* no shares; and a call that is made is handed the slider values as they
\* are, never normalised ones.
C1_InvalidMixNeverEstimated ==
    /\ MixSum # 100 =>
           /\ national_call = NoCall
           /\ national_out = [kind |-> "warning"]
    /\ national_call.kind = "call" =>
           /\ national_call.vehicle_mix.ICE = vehicle_mix_ice
           /\ national_call.vehicle_mix.HEV = vehicle_mix_hev
           /\ national_call.vehicle_mix.EV = vehicle_mix_ev
           /\ MixSum = 100

\* A run on percentages summing to 70, after the estimator has been called
\* in an earlier run.
C1_Witness ==
    /\ MixSum = 70
    /\ "estimate_hpdc_production" \in invoked
    /\ national_out.kind = "warning"

AllComponentsZero ==
    /\ national_call.kind = "call"
    /\ annual_vehicle_production = Zero
    /\ housing_starts = Zero
    /\ gdp_current = Zero
    /\ gdp_elasticity # Zero

\* C2: a call whose automotive, housing and other demand are all zero ends
\* in an explicit degenerate-input error, the division by the total not
\* being performed.
C2_DegenerateInputGuarded ==
    AllComponentsZero => national_out.kind = "DegenerateInputError"

NonNegativeInputs ==
    /\ ~RIsNeg(annual_vehicle_production)
    /\ ~RIsNeg(housing_starts)
    /\ ~RIsNeg(gdp_current)

\* The three shares of the last result, as fractions of total_hpdc, sum to 1
\* and are the three components over the total.
SharesAreComponentsOverTotal ==
    /\ national_out.total_hpdc =
           RAdd(RAdd(national_out.hpdc_auto, national_out.hpdc_housing),
                national_out.est_other_hpdc)
    /\ RMul(national_out.shares.Auto, national_out.total_hpdc) = national_out.hpdc_auto
    /\ RMul(national_out.shares.Housing, national_out.total_hpdc)
           = national_out.hpdc_housing
    /\ RMul(national_out.shares.Other, national_out.total_hpdc)
           = national_out.est_other_hpdc
    /\ RAdd(RAdd(national_out.shares.Auto, national_out.shares.Housing),
            national_out.shares.Other) = One

\* C3: every call on a mix summing to 100 and non-negative production,
\* housing starts and GDP returns a total and three shares, the shares being
\* the components over the total and summing to 1.
C3_SharesSumToOne ==
    (national_call.kind = "call" /\ MixSum = 100 /\ NonNegativeInputs) =>
        /\ national_out.kind = "returned"
        /\ SharesAreComponentsOverTotal

ExpectedWeightTenths == IF "Automotive" \in markets THEN 18 ELSE 10

\* C4: predict_annual_revenue returns clamping_force = machines * avg_tonnage
\* and revenue = (clamping_force * 3000 + employees * 250000) * m, m being 1.8
\* with Automotive among the markets and 1.0 without; the other four
\* segments change nothing; 10 machines of 200 tons and 50 employees give
\* 33,300,000 with {Automotive} and 18,500,000 with {Industrial}.
C4_RevenueFormula ==
    company_call.kind = "call" =>
        /\ company_out.total_clamping_force = machines * avg_tonnage
        /\ company_out.revenue =
               Norm((machines * avg_tonnage * 3000 + employees * 250000)
                        * ExpectedWeightTenths, 10)
        /\ company_out.revenue =
               predict_annual_revenue(machines, employees, avg_tonnage,
                                      markets \cap {"Automotive"}).revenue
        /\ (machines = 10 /\ avg_tonnage = 200 /\ employees = 50) =>
               /\ markets = {"Automotive"} => company_out.revenue = R(33300000)
               /\ markets = {"Industrial"} => company_out.revenue = R(18500000)

\* The revenue of 10 machines of 200 tons and 50 employees serving
\* Automotive and three of the other segments.
C4_Witness ==
    /\ company_call.kind = "call"
    /\ machines = 10 /\ avg_tonnage = 200 /\ employees = 50
    /\ markets = {"Automotive", "Medical", "Consumer", "Aerospace"}
    /\ company_out.revenue = R(33300000)
    /\ company_out.total_clamping_force = 2000

DefaultDemandCall ==
    /\ national_call.kind = "call"
    /\ annual_vehicle_production = <<56, 5>>
    /\ vehicle_mix_ice = 45 /\ vehicle_mix_hev = 25 /\ vehicle_mix_ev = 30
    /\ housing_starts = <<7, 5>>

\* C5 as stated: for 11,200,000 vehicles, mix 45/25/30 and 1,400,000 housing
\* starts the automotive demand is 2,636,400,000 lbs (2636.4 million) and the
\* housing demand 140,000,000 lbs (140 million).
C5_DemandAsStated ==
    DefaultDemandCall =>
        /\ national_out.hpdc_auto = <<13182, 5>>
        /\ national_out.hpdc_housing = R(140)

\* C5 amended: the ICE term is 957,600,000 lbs and the automotive demand
\* 957,600,000 + 672,000,000 + 1,008,000,000 = 2,637,600,000 lbs (2637.6
\* million); the housing demand is 140,000,000 lbs.
C5_DemandAmended ==
    DefaultDemandCall =>
        /\ national_out.hpdc_auto = <<13188, 5>>
        /\ national_out.hpdc_auto = RAdd(RAdd(<<4788, 5>>, R(672)), R(1008))
        /\ hpdc_auto([ICE |-> 45, HEV |-> 0, EV |-> 0], <<56, 5>>, module_globals)
               = <<4788, 5>>
        /\ hpdc_auto([ICE |-> 0, HEV |-> 25, EV |-> 0], <<56, 5>>, module_globals)
               = R(672)
        /\ hpdc_auto([ICE |-> 0, HEV |-> 0, EV |-> 30], <<56, 5>>, module_globals)
               = R(1008)
        /\ national_out.hpdc_housing = R(140)

C5_Witness ==
    /\ DefaultDemandCall
    /\ national_out.kind = "returned"
    /\ national_out.hpdc_auto = <<13188, 5>>

\* C6: the company metrics carry revenue per employee, equal to revenue /
\* employees, exactly when employees > 0; with employees = 0 the division is
\* not performed, the field is absent, and revenue and clamping force are
\* shown all the same.
C6_RevenuePerEmployee ==
    company_call.kind = "call" =>
        /\ company_out.kind = "metrics"
        /\ {"revenue", "total_clamping_force"} \subseteq DOMAIN company_out
        /\ ("revenue_per_employee" \in DOMAIN company_out) <=> (employees > 0)
        /\ employees > 0 =>
               RMul(company_out.revenue_per_employee, R(employees))
                   = company_out.revenue

C6_Witness ==
    /\ company_call.kind = "call"
    /\ employees = 0
    /\ machines = 10 /\ avg_tonnage = 200
    /\ company_out.kind = "metrics"
    /\ company_out.revenue = R(10800000)
    /\ "revenue_per_employee" \notin DOMAIN company_out

\* C7: with gdp_elasticity = 0 the other demand is base_year_other_hpdc for
\* every current_gdp, 0 included; with gdp_elasticity = 1 it is
\* base_year_other_hpdc * current_gdp / base_year_gdp.
C7_ElasticityZeroAndOne ==
    national_call.kind = "call" =>
        /\ gdp_elasticity = Zero =>
               national_out.est_other_hpdc = national_call.base_year_other_hpdc
        /\ gdp_elasticity = One =>
               RMul(national_out.est_other_hpdc, national_call.base_year_gdp)
                   = RMul(national_call.base_year_other_hpdc, gdp_current)

C7_Witness ==
    /\ national_call.kind = "call"
    /\ gdp_elasticity = Zero
    /\ gdp_current = Zero
    /\ national_out.kind = "returned"
    /\ national_out.est_other_hpdc = R(3200)

\* C8: every call of either estimator is made on non-negative numeric
\* arguments.
C8_CallsOnNonNegativeInputs ==
    /\ national_call.kind = "call" =>
           /\ ~RIsNeg(national_call.annual_vehicle_production)
           /\ ~RIsNeg(national_call.annual_housing_starts)
           /\ ~RIsNeg(national_call.current_gdp)
           /\ ~RIsNeg(national_call.gdp_elasticity)
           /\ national_call.vehicle_mix.ICE >= 0
           /\ national_call.vehicle_mix.HEV >= 0
           /\ national_call.vehicle_mix.EV >= 0
    /\ company_call.kind = "call" =>
           /\ company_call.machines >= 0
           /\ company_call.avg_tonnage >= 0
           /\ company_call.employees >= 0

Moved(mix, a, b, d) == [mix EXCEPT ![a] = @ - d, ![b] = @ + d]

\* The moves tried from a powertrain holding n points: one point, and every
\* multiple of five up to all n.
Moves(n) == {d \in 1..n : d = 1 \/ d % 5 = 0}

\* C10: for a mix summing to 100 and a production P >= 0 the automotive
\* demand lies between 190 * P and 300 * P, and moving points from ICE to
\* HEV, from HEV to EV or from ICE to EV (any of Moves) never decreases it.
C10_AutoDemandBoundsAndMonotone ==
    (national_call.kind = "call" /\ MixSum = 100
         /\ ~RIsNeg(annual_vehicle_production)) =>
        /\ RLeq(RMul(R(190), annual_vehicle_production), national_out.hpdc_auto)
        /\ RLeq(national_out.hpdc_auto, RMul(R(300), annual_vehicle_production))
        /\ \A p \in {<<"ICE", "HEV">>, <<"HEV", "EV">>, <<"ICE", "EV">>} :
               \A d \in Moves(national_call.vehicle_mix[p[1]]) :
                   RLeq(national_out.hpdc_auto,
                        hpdc_auto(Moved(national_call.vehicle_mix, p[1], p[2], d),
                                  annual_vehicle_production, module_globals))

C10_Witness ==
    /\ national_call.kind = "call"
    /\ vehicle_mix_ice = 50 /\ vehicle_mix_hev = 30 /\ vehicle_mix_ev = 20
    /\ annual_vehicle_production = One
    /\ national_out.hpdc_auto = R(227)

====
